---- MODULE Spec2Model ----
(***************************************************************************)
(* Model of rust-crud-api (src/src/main.rs): an actix-web server whose     *)
(* only registered service is `get_users` (GET /users), sharing one        *)
(* tokio_postgres Client behind Arc<std::sync::Mutex<Client>>.             *)
(*                                                                         *)
(* Request tasks are local to an actix worker thread (cooperative          *)
(* scheduling inside a worker); std::sync::Mutex::lock blocks the whole    *)
(* worker thread, not just the calling task.  A panic inside a handler     *)
(* (the two `unwrap()` calls) unwinds the request task: no response is     *)
(* written, and a MutexGuard dropped during the unwinding poisons the      *)
(* mutex.                                                                  *)
(***************************************************************************)
EXTENDS Integers, Sequences, FiniteSets, TLC

\* ---------------------------------------------------------------- bounds
NumTasks == 2
NumWorkers == 2
MaxId == 2

Tasks == 1..NumTasks
Workers == 1..NumWorkers

\* ------------------------------------------------------- data and inputs
Names == <<"Ann", "Bob">>
Emails == <<"ann@x.com", "bob@x.com">>

\* A row of table users(id SERIAL PRIMARY KEY, name, email): columns 0,1,2
\* of the source are positions 1,2,3 of the tuple.  The rows the model
\* enumerates: one per id, with names and emails that differ between
\* neighbouring ids.
Rows == {<<i, Names[((i - 1) % 2) + 1], Emails[((i - 1) % 2) + 1]>> : i \in 1..MaxId}

\* Possible contents of the users table: id is a primary key.
Tables == {T \in SUBSET Rows : \A r1, r2 \in T : r1[1] = r2[1] => r1 = r2}

\* struct User { id: Option<i32>, name: String, email: String }
User(id, name, email) == [id |-> id, name |-> name, email |-> email]

NoBody == <<>>
AnnBody == <<"Ann", "ann@x.com">>

\* Path segments are sequences of characters.
SegUsers == <<"u", "s", "e", "r", "s">>
Seg1 == <<"1">>
SegAbc == <<"a", "b", "c">>

Request(method, path, body) == [method |-> method, path |-> path, body |-> body]

\* The inbound requests the model enumerates.
Requests ==
    { Request("GET", <<SegUsers>>, NoBody),
      Request("POST", <<SegUsers>>, AnnBody),
      Request("GET", <<SegUsers, SegAbc>>, NoBody),
      Request("PUT", <<SegUsers, SegAbc>>, AnnBody),
      Request("DELETE", <<SegUsers, Seg1>>, NoBody),
      Request("DELETE", <<SegUsers, SegAbc>>, NoBody) }

NoRequest == Request("", <<>>, NoBody)

Digits == {"0", "1", "2", "3", "4", "5", "6", "7", "8", "9"}

\* get_id(&request).parse::<i32>() of the retired handlers: does the
\* segment denote an integer?
IsInteger(seg) == Len(seg) > 0 /\ \A i \in 1..Len(seg) : seg[i] \in Digits

DigitVal(c) == CHOOSE n \in 0..9 : <<"0", "1", "2", "3", "4", "5", "6", "7", "8", "9">>[n + 1] = c

RECURSIVE ParseI32(_)
ParseI32(seg) == IF seg = <<>> THEN 0
                 ELSE 10 * ParseI32(SubSeq(seg, 1, Len(seg) - 1)) + DigitVal(seg[Len(seg)])

\* Responses.  status 0 stands for "no response was written" (the request
\* task unwound on a panic and the connection was dropped).
Response(status, body) == [status |-> status, body |-> body]
NoResponse == Response(0, <<>>)

\* Query results: Result<Vec<Row>, Error>
\* (kind: the tokio_postgres error kind, "closed" when the connection is gone)
Ok(rows) == [ok |-> TRUE, rows |-> rows, kind |-> ""]
Err(kind) == [ok |-> FALSE, rows |-> <<>>, kind |-> kind]

\* The orders in which SELECT * may return the rows of table T.
RowOrders(T) == {s \in [1..Cardinality(T) -> T] : \A i, j \in 1..Cardinality(T) : s[i] = s[j] => i = j}

VARIABLES
    phase,        \* position of main: "start", "connected", "ready", "serving", "terminated"
    connects,     \* number of sessions created by tokio_postgres::connect
    conn,         \* background connection task: "none", "alive", "failed", "closed"
    connLog,      \* number of "Connection error" lines printed
    createdOk,    \* the CREATE TABLE IF NOT EXISTS batch returned Ok
    tableExists,  \* database: the users table exists
    users,        \* database: rows of the users table
    users0,       \* history: rows of the users table when the process started
    locked,       \* std::sync::Mutex: locked
    poisoned,     \* std::sync::Mutex: poison flag
    holders,      \* request tasks that own a MutexGuard
    pc,           \* per request task: position
    worker,       \* per request task: the worker thread it runs on
    req,          \* per request task: the request it serves
    result,       \* per request task: outcome of client.query
    seen,         \* history: rows of the table when the task's statement executed
    stmts,        \* history: statements the task sent to the database
    resp          \* per request task: response written

vars == <<phase, connects, conn, connLog, createdOk, tableExists, users, users0,
          locked, poisoned, holders, pc, worker, req, result, seen, stmts, resp>>

dbVars == <<tableExists, users, users0>>
mainVars == <<phase, connects, createdOk>>
mutexVars == <<locked, poisoned, holders>>
taskVars == <<pc, worker, req, result, seen, stmts, resp>>

Init ==
    /\ phase = "start"
    /\ connects = 0
    /\ conn = "none"
    /\ connLog = 0
    /\ createdOk = FALSE
    /\ tableExists \in BOOLEAN
    /\ users \in (IF tableExists THEN Tables ELSE {{}})
    /\ users0 = users
    /\ locked = FALSE
    /\ poisoned = FALSE
    /\ holders = {}
    /\ pc = [t \in Tasks |-> "idle"]
    /\ worker = [t \in Tasks |-> 1]
    /\ req = [t \in Tasks |-> NoRequest]
    /\ result = [t \in Tasks |-> Err("")]
    /\ seen = [t \in Tasks |-> {}]
    /\ stmts = [t \in Tasks |-> 0]
    /\ resp = [t \in Tasks |-> NoResponse]

\* ------------------------------------------------------------- startup
\* Rows of users after "CREATE TABLE IF NOT EXISTS users (...)": an existing
\* table is left alone, a missing one is created empty.
RowsAfterCreateDropping(exists, T) == {}

RowsAfterCreate(exists, T) == IF exists THEN T ELSE {}

\* setup_database: tokio_postgres::connect(DB_URL, NoTls).await succeeded;
\* the connection future is spawned as a background task.
Connect ==
    /\ phase = "start"
    /\ phase' = "connected"
    /\ connects' = connects + 1
    /\ conn' = "alive"
    /\ UNCHANGED <<connLog, createdOk, dbVars, mutexVars, taskVars>>

\* setup_database: connect failed; `?` returns the error and main's
\* expect("Failed to connect to DB") panics.
ConnectFail ==
    /\ phase = "start"
    /\ phase' = "terminated"
    /\ UNCHANGED <<connects, conn, connLog, createdOk, dbVars, mutexVars, taskVars>>

\* setup_database: batch_execute(CREATE TABLE IF NOT EXISTS ...) returned Ok;
\* main wraps the client in Arc<Mutex<_>>.
CreateTable ==
    /\ phase = "connected"
    /\ conn = "alive"
    /\ tableExists' = TRUE
    /\ users' = RowsAfterCreate(tableExists, users)
    /\ createdOk' = TRUE
    /\ phase' = "ready"
    /\ UNCHANGED <<connects, conn, connLog, users0, mutexVars, taskVars>>

\* setup_database: batch_execute failed; the client is dropped (which ends
\* the connection task) and main's expect panics.
CreateTableFail ==
    /\ phase = "connected"
    /\ phase' = "terminated"
    /\ conn' = IF conn = "alive" THEN "closed" ELSE conn
    /\ UNCHANGED <<connects, connLog, createdOk, dbVars, mutexVars, taskVars>>

\* main: HttpServer::new(..).bind(("0.0.0.0", 8080))?.run()
Bind ==
    /\ phase = "ready"
    /\ phase' = "serving"
    /\ UNCHANGED <<connects, conn, connLog, createdOk, dbVars, mutexVars, taskVars>>

\* main: bind failed; `?` returns the io::Error from main.
BindFail ==
    /\ phase = "ready"
    /\ phase' = "terminated"
    /\ conn' = IF conn = "alive" THEN "closed" ELSE conn
    /\ UNCHANGED <<connects, connLog, createdOk, dbVars, mutexVars, taskVars>>

\* The spawned task: `if let Err(e) = connection.await { eprintln!(..) }`.
\* The task ends; nothing reconnects.
ConnectionError ==
    /\ phase \in {"connected", "ready", "serving"}
    /\ conn = "alive"
    /\ conn' = "failed"
    /\ connLog' = connLog + 1
    /\ UNCHANGED <<mainVars, dbVars, mutexVars, taskVars>>

\* ------------------------------------------------------------- routing
\* #[get("/users")]: the one service registered on the App.
Matches_get_users_AnyMethod(r) == r.path = <<SegUsers>>

Matches_get_users(r) == r.method = "GET" /\ r.path = <<SegUsers>>

\* A worker thread runs its tasks only while none of them sits inside the
\* blocking std::sync::Mutex::lock call.
ThreadFree(w) == \A u \in Tasks : worker[u] = w => pc[u] # "blocked"

\* A request arrives on worker w and is dispatched: to get_users when the
\* service matches, else to the App's default service (404, empty body).
Route(t, w, r) ==
    /\ phase = "serving"
    /\ pc[t] = "idle"
    /\ ThreadFree(w)
    /\ worker' = [worker EXCEPT ![t] = w]
    /\ req' = [req EXCEPT ![t] = r]
    /\ IF Matches_get_users(r)
       THEN /\ pc' = [pc EXCEPT ![t] = "handler"]
            /\ resp' = resp
       ELSE /\ pc' = [pc EXCEPT ![t] = "done"]
            /\ resp' = [resp EXCEPT ![t] = Response(404, <<>>)]
    /\ UNCHANGED <<mainVars, conn, connLog, dbVars, mutexVars, result, seen, stmts>>

\* ----------------------------------------------------------- get_users
\* Mutex::lock returns only when no guard is outstanding.
MutexFreeAlways == TRUE

MutexFree == ~locked

\* db.lock(): the mutex is held by another task, so the calling worker
\* thread blocks inside lock().
get_users_block(t) ==
    /\ pc[t] = "handler"
    /\ ThreadFree(worker[t])
    /\ ~MutexFree
    /\ pc' = [pc EXCEPT ![t] = "blocked"]
    /\ UNCHANGED <<mainVars, conn, connLog, dbVars, mutexVars,
                   worker, req, result, seen, stmts, resp>>

\* db.lock().unwrap() returns.  On a poisoned mutex lock() yields Err and
\* unwrap panics (the guard inside the error is dropped at once).  Otherwise
\* the task keeps the guard, sends "SELECT * from users" and awaits.
get_users_lock(t) ==
    /\ \/ pc[t] = "handler" /\ ThreadFree(worker[t])
       \/ pc[t] = "blocked"
    /\ MutexFree
    /\ IF poisoned
       THEN /\ pc' = [pc EXCEPT ![t] = "panicked"]
            /\ UNCHANGED <<mutexVars, stmts>>
       ELSE /\ pc' = [pc EXCEPT ![t] = "awaiting"]
            /\ locked' = TRUE
            /\ holders' = holders \cup {t}
            /\ stmts' = [stmts EXCEPT ![t] = stmts[t] + 1]
            /\ UNCHANGED poisoned
    /\ UNCHANGED <<mainVars, conn, connLog, dbVars, worker, req, result, seen, resp>>

\* The database executes the statement and the connection task delivers
\* the rows, in some order.
QueryOk(t) ==
    /\ pc[t] = "awaiting"
    /\ conn = "alive"
    /\ tableExists
    /\ \E rows \in RowOrders(users) : result' = [result EXCEPT ![t] = Ok(rows)]
    /\ seen' = [seen EXCEPT ![t] = users]
    /\ pc' = [pc EXCEPT ![t] = "woken"]
    /\ UNCHANGED <<mainVars, conn, connLog, dbVars, mutexVars, worker, req, stmts, resp>>

\* client.query(..).await yields Err: the connection is gone, or the
\* backend reported an error.
QueryErr(t) ==
    /\ pc[t] = "awaiting"
    /\ result' = [result EXCEPT ![t] = Err(IF conn = "alive" THEN "db" ELSE "closed")]
    /\ pc' = [pc EXCEPT ![t] = "woken"]
    /\ UNCHANGED <<mainVars, conn, connLog, dbVars, mutexVars, worker, req, seen, stmts, resp>>

\* id: row.get(0), name: row.get(1), email: row.get(2)
ToUserSwapped(row) == User(row[1], row[3], row[2])

ToUser(row) == User(row[1], row[2], row[3])

\* for row in rows { users.push(User {..}) }
RECURSIVE CollectUsers(_)
CollectUsers(rows) ==
    IF rows = <<>> THEN <<>>
    ELSE <<ToUser(Head(rows))>> \o CollectUsers(Tail(rows))

\* The worker polls the task again after the query completed.  Ok: the
\* rows are mapped and HttpResponse::Ok().json(users) is returned; the
\* guard drops at the end of the function.  Err: unwrap panics; the guard
\* drops while the thread is panicking, which poisons the mutex, and no
\* response is written.
get_users_finish(t) ==
    /\ pc[t] = "woken"
    /\ ThreadFree(worker[t])
    /\ locked' = FALSE
    /\ holders' = holders \ {t}
    /\ IF result[t].ok
       THEN /\ resp' = [resp EXCEPT ![t] = Response(200, CollectUsers(result[t].rows))]
            /\ pc' = [pc EXCEPT ![t] = "done"]
            /\ UNCHANGED poisoned
       ELSE /\ resp' = resp
            /\ pc' = [pc EXCEPT ![t] = "panicked"]
            /\ poisoned' = TRUE
    /\ UNCHANGED <<mainVars, conn, connLog, dbVars, worker, req, result, seen, stmts>>

Next ==
    \/ Connect
    \/ ConnectFail
    \/ CreateTable
    \/ CreateTableFail
    \/ Bind
    \/ BindFail
    \/ ConnectionError
    \/ \E t \in Tasks, w \in Workers, r \in Requests : Route(t, w, r)
    \/ \E t \in Tasks : get_users_block(t)
    \/ \E t \in Tasks : get_users_lock(t)
    \/ \E t \in Tasks : QueryOk(t)
    \/ \E t \in Tasks : QueryErr(t)
    \/ \E t \in Tasks : get_users_finish(t)

Spec == Init /\ [][Next]_vars

\* ------------------------------------------------------------ properties
Finished(t) == pc[t] \in {"done", "panicked"}

\* The task reached client.query and the query completed.
QueryCompleted(t) == Finished(t) /\ stmts[t] > 0

InFlight == {t \in Tasks : pc[t] \in {"awaiting", "woken"}}

IdScoped(r) == Len(r.path) = 2 /\ r.path[1] = SegUsers

\* C1: at most one task owns the guard of the shared client at any time, and
\* a task has a statement in flight on the session only while it owns it.
C1_MutualExclusion ==
    /\ Cardinality(holders) <= 1
    /\ Cardinality(InFlight) <= 1
    /\ InFlight \subseteq holders
    /\ holders # {} => locked

\* One task has its query in flight while another one waits in lock().
C1_Witness == \E t, u \in Tasks : pc[t] = "awaiting" /\ pc[u] = "blocked"

\* C2: a GET /users whose query succeeded answers 200 with exactly one
\* record (id, name, email) per row the table held when the statement
\* executed (empty array for an empty table), and the table is unchanged.
C2_ListIsExact ==
    \A t \in Tasks :
        (QueryCompleted(t) /\ result[t].ok) =>
            /\ resp[t].status = 200
            /\ Len(resp[t].body) = Cardinality(seen[t])
            /\ \A r \in seen[t] :
                   \E i \in 1..Len(resp[t].body) :
                       resp[t].body[i] = [id |-> r[1], name |-> r[2], email |-> r[3]]
            /\ \A i \in 1..Len(resp[t].body) :
                   \E r \in seen[t] :
                       resp[t].body[i] = [id |-> r[1], name |-> r[2], email |-> r[3]]
            /\ (seen[t] = {} => resp[t].body = <<>>)
            /\ users = seen[t]

\* A GET /users answered with a list of two users.
C2_Witness ==
    \E t \in Tasks :
        /\ pc[t] = "done"
        /\ req[t] = Request("GET", <<SegUsers>>, NoBody)
        /\ resp[t].status = 200
        /\ Len(resp[t].body) = 2

\* C3: a GET /users whose query failed is answered with status 500 and no
\* list of users.
C3_QueryFailureAnswers500 ==
    \A t \in Tasks :
        (QueryCompleted(t) /\ ~result[t].ok) =>
            resp[t].status = 500 /\ resp[t].body = <<>>

\* C4: the serializer is released on every exit path and stays usable: every
\* request that gets to lock() after another request's operation failed
\* acquires the guard and runs its own statement.
C4_UsableAfterFailure ==
    /\ \A t \in Tasks : Finished(t) => t \notin holders
    /\ \A u \in Tasks :
           (Finished(u) /\ Matches_get_users(req[u])) => stmts[u] = 1

\* C5: a task waiting for the serializer never keeps the holder from being
\* resumed: once the holder's database call has returned, its worker thread
\* is free to run it.
C5_WaiterDoesNotStallHolder ==
    \A h \in Tasks : pc[h] = "woken" => ThreadFree(worker[h])

\* C6: POST /users with a valid {name, email} body answers 201.
C6_PostAnswers201 ==
    \A t \in Tasks :
        (Finished(t) /\ req[t].method = "POST" /\ req[t].path = <<SegUsers>>
            /\ req[t].body = AnnBody) =>
            resp[t].status = 201

\* C7: an id-scoped route (GET, PUT, DELETE /users/{id}) with a non-integer
\* {id} answers 500 and sends no statement to the database.
C7_BadIdAnswers500 ==
    \A t \in Tasks :
        (Finished(t) /\ IdScoped(req[t]) /\ ~IsInteger(req[t].path[2])
            /\ req[t].method \in {"GET", "PUT", "DELETE"}) =>
            resp[t].status = 500 /\ stmts[t] = 0

\* C8: DELETE /users/{id} answers 204 with an empty body when a row with
\* that id exists, and 404 (table unchanged) when the id was never inserted.
C8_DeleteStatus ==
    \A t \in Tasks :
        (Finished(t) /\ req[t].method = "DELETE" /\ IdScoped(req[t])
            /\ IsInteger(req[t].path[2])) =>
            IF \E r \in users0 : r[1] = ParseI32(req[t].path[2])
            THEN resp[t].status = 204 /\ resp[t].body = <<>>
            ELSE resp[t].status = 404 /\ users = users0

\* C9: a failure of the background connection task is logged once, and every
\* database operation that fails because the connection is gone is answered
\* with a complete response of status 500.
C9_ConnectionLoss500 ==
    /\ conn = "failed" => connLog = 1
    /\ \A t \in Tasks :
           (QueryCompleted(t) /\ ~result[t].ok /\ result[t].kind = "closed") =>
               resp[t].status = 500

\* C10: requests are served only after the one connection was established
\* and the CREATE TABLE IF NOT EXISTS succeeded; a process that terminated
\* never served a request; creating the table keeps the rows it had.
C10_StartupOrdering ==
    /\ connects <= 1
    /\ (phase \in {"ready", "serving"} \/ \E t \in Tasks : pc[t] # "idle") =>
           connects = 1 /\ createdOk /\ tableExists
    /\ phase = "terminated" => \A t \in Tasks : pc[t] = "idle"
    /\ users = users0

\* A request was served on a table that already held rows at startup.
C10_Witness ==
    /\ phase = "serving"
    /\ users0 # {}
    /\ \E t \in Tasks : pc[t] = "done"

====
